---- MODULE Spec2Model ----
(***************************************************************************)
(* A model of generator.py: the Roku M3U playlist generator.               *)
(*                                                                         *)
(* Python values are records tagged by their type (field t); a Python str  *)
(* is carried as a TLA+ string, so that replace, isdigit, lower, `in` and  *)
(* the f-strings are computed character by character as Python does.      *)
(* An expression that may raise yields Ok(v) or Raise(e).                  *)
(***************************************************************************)
EXTENDS Integers, Sequences, FiniteSets, TLC

VARIABLES
    entry,               \* the function the run invokes from outside
    pc,                  \* the statement control stands at
    sort,                \* generate_roku_playlist: its argument
    data,                \* generate_roku_playlist: what fetch_url returned
    channels_to_process, \* generate_roku_playlist: data.get('channels', {})
    sorted_channel_ids,  \* generate_roku_playlist: the order of iteration
    idx,                 \* generate_roku_playlist: position of the for loop
    extinf,              \* generate_roku_playlist: the line format_extinf gave
    output_lines,        \* generate_roku_playlist: the accumulator
    m3u_content,         \* write_m3u_file: the content it was handed
    file,                \* roku_all.m3u: the content a completed write left
    channel_id,          \* get_roku_stream_url: its argument
    csrf_token,          \* get_roku_stream_url: the token, or None
    playback_response,   \* get_roku_stream_url: the negotiation response
    stream_url,          \* get_roku_stream_url: the value it returned
    net,                 \* the requests the current resolver call has issued
    provider,            \* history: what the provider answered in this call
    resolved,            \* history: one record per finished resolver call
    log,                 \* the logging module's output, oldest first
    raised,              \* the exception that left the invoked function
    fmt_args,            \* format_extinf called on its own: the arguments
    fmt_result           \* format_extinf called on its own: the outcome

vars == <<entry, pc, sort, data, channels_to_process, sorted_channel_ids, idx,
          extinf, output_lines, m3u_content, file, channel_id, csrf_token,
          playback_response, stream_url, net, provider, resolved, log, raised,
          fmt_args, fmt_result>>

builderVars == <<sort, data, channels_to_process, sorted_channel_ids, idx,
                 extinf, output_lines, m3u_content, file>>

resolverVars == <<channel_id, csrf_token, playback_response, stream_url, net,
                  provider, resolved>>

formatVars == <<fmt_args, fmt_result>>

(***************************************************************************)
(* Bounds of the model.                                                    *)
(***************************************************************************)
\* The longest catalog the builder is run on.
MaxChannels == 2

(***************************************************************************)
(* Python values.                                                          *)
(***************************************************************************)
PyNone == [t |-> "none"]

PyStr(s) == [t |-> "str", s |-> s]

PyInt(n) == [t |-> "int", n |-> n]

PyList(l) == [t |-> "list", l |-> l]

\* A dict keeps its insertion order: a sequence of <<key, value>> pairs.
PyDict(items) == [t |-> "dict", items |-> items]

Ok(v) == [ok |-> TRUE, v |-> v]

Raise(e) == [ok |-> FALSE, exc |-> e]

(***************************************************************************)
(* str: the characters, and the methods of str the program calls.          *)
(***************************************************************************)
\* The printable ASCII characters in code-point order: 32 (space) to 95, and
\* 97 to 126 (the grave accent, 96, cannot be written in a string here).
AsciiLow == " !\"#$%&'()*+,-./0123456789:;<=>?@ABCDEFGHIJKLMNOPQRSTUVWXYZ[\\]^_"

AsciiHigh == "abcdefghijklmnopqrstuvwxyz{|}~"

CharAt(s, i) == SubSeq(s, i, i)

\* ord(c)
Ord(c) ==
    IF c = "\n" THEN 10
    ELSE IF \E i \in 1..Len(AsciiLow) : CharAt(AsciiLow, i) = c
         THEN 31 + (CHOOSE i \in 1..Len(AsciiLow) : CharAt(AsciiLow, i) = c)
         ELSE 96 + (CHOOSE i \in 1..Len(AsciiHigh) : CharAt(AsciiHigh, i) = c)

\* chr(n)
Chr(n) ==
    IF n = 10 THEN "\n"
    ELSE IF n < 96 THEN CharAt(AsciiLow, n - 31) ELSE CharAt(AsciiHigh, n - 96)

IsDigitChar(c) == Ord(c) \in 48..57

\* str.isdigit(): at least one character, and all of them digits.
StrIsDigit(s) == Len(s) > 0 /\ \A i \in 1..Len(s) : IsDigitChar(CharAt(s, i))

\* s.startswith(p)
StartsWith(s, p) == Len(s) >= Len(p) /\ SubSeq(s, 1, Len(p)) = p

\* sub in s
StrContains(s, sub) ==
    \E i \in 1..(Len(s) - Len(sub) + 1) : SubSeq(s, i, i + Len(sub) - 1) = sub

RECURSIVE StrReplace(_, _, _)
\* s.replace(old, new): every occurrence, left to right, without overlap.
StrReplace(s, old, new) ==
    IF Len(s) < Len(old) THEN s
    ELSE IF StartsWith(s, old)
         THEN new \o StrReplace(SubSeq(s, Len(old) + 1, Len(s)), old, new)
         ELSE CharAt(s, 1) \o StrReplace(SubSeq(s, 2, Len(s)), old, new)

LowerChar(c) == IF Ord(c) \in 65..90 THEN Chr(Ord(c) + 32) ELSE c

RECURSIVE StrLower(_)
\* s.lower()
StrLower(s) ==
    IF Len(s) = 0 THEN s
    ELSE LowerChar(CharAt(s, 1)) \o StrLower(SubSeq(s, 2, Len(s)))

RECURSIVE StrLess(_, _)
\* a < b on str: lexicographic by code point.
StrLess(a, b) ==
    IF Len(b) = 0 THEN FALSE
    ELSE IF Len(a) = 0 THEN TRUE
    ELSE IF CharAt(a, 1) = CharAt(b, 1)
         THEN StrLess(SubSeq(a, 2, Len(a)), SubSeq(b, 2, Len(b)))
         ELSE Ord(CharAt(a, 1)) < Ord(CharAt(b, 1))

RECURSIVE NatToStr(_)
NatToStr(n) ==
    IF n < 10 THEN Chr(48 + n) ELSE NatToStr(n \div 10) \o Chr(48 + (n % 10))

\* str(n) of an int
IntToStr(n) == IF n < 0 THEN "-" \o NatToStr(0 - n) ELSE NatToStr(n)

RECURSIVE DigitsToNat(_, _)
DigitsToNat(s, acc) ==
    IF Len(s) = 0 THEN acc
    ELSE DigitsToNat(SubSeq(s, 2, Len(s)), 10 * acc + (Ord(CharAt(s, 1)) - 48))

RECURSIVE StrStrip(_)
\* s.strip() of blanks, as int() does before it reads its argument.
StrStrip(s) ==
    IF Len(s) > 0 /\ CharAt(s, 1) = " " THEN StrStrip(SubSeq(s, 2, Len(s)))
    ELSE IF Len(s) > 0 /\ CharAt(s, Len(s)) = " "
         THEN StrStrip(SubSeq(s, 1, Len(s) - 1))
         ELSE s

(***************************************************************************)
(* The built-ins the program applies to values of any type.                *)
(***************************************************************************)
\* bool(v), as `if v` and `not v` take it.
Truthy(v) ==
    CASE v.t = "none" -> FALSE
      [] v.t = "str"  -> Len(v.s) > 0
      [] v.t = "int"  -> v.n # 0
      [] v.t = "list" -> Len(v.l) > 0
      [] v.t = "dict" -> Len(v.items) > 0

\* str(v), which is also what an f-string field renders (of the values the
\* catalog carries in the fields that are rendered: None, str and int).
PyStrOf(v) ==
    CASE v.t = "none" -> "None"
      [] v.t = "str"  -> v.s
      [] v.t = "int"  -> IntToStr(v.n)

\* int(v)
PyIntOf(v) ==
    CASE v.t = "int" -> Ok(v.n)
      [] v.t = "str" ->
            LET s == StrStrip(v.s)
                signed == Len(s) > 0 /\ CharAt(s, 1) \in {"+", "-"}
                digits == IF signed THEN SubSeq(s, 2, Len(s)) ELSE s
            IN  IF StrIsDigit(digits)
                THEN Ok(IF signed /\ CharAt(s, 1) = "-"
                        THEN 0 - DigitsToNat(digits, 0)
                        ELSE DigitsToNat(digits, 0))
                ELSE Raise("ValueError")
      [] OTHER -> Raise("TypeError")

HasKey(d, k) == \E i \in 1..Len(d.items) : d.items[i][1] = k

Lookup(d, k) == d.items[CHOOSE i \in 1..Len(d.items) : d.items[i][1] = k][2]

\* v.get(k, default): only a dict has the method.
PyGet(v, k, default) ==
    IF v.t # "dict" THEN Raise("AttributeError")
    ELSE Ok(IF HasKey(v, k) THEN Lookup(v, k) ELSE default)

\* k in v, for a str k
PyIn(k, v) ==
    CASE v.t = "str"  -> Ok(StrContains(v.s, k))
      [] v.t = "list" -> Ok(\E i \in 1..Len(v.l) : v.l[i] = PyStr(k))
      [] v.t = "dict" -> Ok(HasKey(v, k))
      [] OTHER        -> Raise("TypeError")

\* v.replace(old, new): only a str has the method.
PyReplace(v, old, new) ==
    IF v.t = "str" THEN Ok(PyStr(StrReplace(v.s, old, new)))
    ELSE Raise("AttributeError")

\* v.keys() as a list
PyKeys(v) ==
    IF v.t # "dict" THEN Raise("AttributeError")
    ELSE Ok([i \in 1..Len(v.items) |-> v.items[i][1]])

(***************************************************************************)
(* logging                                                                 *)
(***************************************************************************)
\* One line of the log: its level, the fixed text of the message, and the
\* identifier, URL or file name the message carries.
LogRecord(level, msg, about) == [level |-> level, msg |-> msg, about |-> about]

(***************************************************************************)
(* get_roku_stream_url                                                     *)
(***************************************************************************)
RootUrl == "https://therokuchannel.roku.com/"

PlaybackUrl == "https://therokuchannel.roku.com/api/v3/playback"

FallbackUrl(c) ==
    "https://aka-live491.delivery.roku.com/" \o c \o "/t2-origin/out/v1/live.m3u8"

PlaybackData(c) ==
    [rokuId |-> c, playId |-> "live", mediaFormat |-> "m3u",
     drmType |-> "widevine", quality |-> "fhd", bifUrl |-> PyNone,
     adPolicyId |-> "", providerId |-> "rokuavod"]

\* The identifier of the i-th channel of a catalog.
ChannelIdAt(i) == "ch" \o IntToStr(i)

\* The channel identifiers the resolver is called on.
ChannelIds == {ChannelIdAt(i) : i \in 1..MaxChannels}

\* What the provider's root page may answer: the request raises, or a
\* response comes whose headers carry the token, an empty one, or none.
SessionOutcomes ==
    {[kind |-> "raise", headers |-> PyDict(<<>>)]}
    \cup {[kind |-> "response", headers |-> h] :
            h \in {PyDict(<<>>),
                   PyDict(<< <<"csrf-token", PyStr("")>> >>),
                   PyDict(<< <<"csrf-token", PyStr("tok-1")>> >>)}}

\* The URLs a negotiation response may carry.
UrlSamples ==
    {"",
     "https://osm.sr.roku.com/abc/live.m3u8",
     "https://cdn.example.com/abc/live.m3u8",
     "https://cdn.example.com/osm.sr.roku.com/live.m3u8"}

\* The bodies of a negotiation response: text that is not JSON, or JSON.
PlaybackBodies ==
    {[json |-> FALSE, value |-> PyNone]}
    \cup {[json |-> TRUE, value |-> PyDict(<< <<"url", PyStr(u)>> >>)] :
            u \in UrlSamples}
    \cup {[json |-> TRUE, value |-> v] :
            v \in {PyDict(<<>>),
                   PyDict(<< <<"url", PyNone>> >>),
                   PyDict(<< <<"url", PyList(<<PyStr("https://cdn.example.com/a.m3u8")>>)>> >>),
                   PyList(<<>>)}}

NoResponse == [kind |-> "none", status |-> 0, body |-> [json |-> FALSE, value |-> PyNone]]

\* No request has been answered yet.
NoProvider ==
    [session |-> [kind |-> "none", headers |-> PyDict(<<>>)], playback |-> NoResponse]

\* What the negotiation endpoint may answer.
PlaybackOutcomes ==
    {[kind |-> "raise", status |-> 0, body |-> [json |-> FALSE, value |-> PyNone]]}
    \cup {[kind |-> "response", status |-> 200, body |-> b] : b \in PlaybackBodies}
    \cup {[kind |-> "response", status |-> 403, body |-> [json |-> FALSE, value |-> PyNone]],
          [kind |-> "response", status |-> 500,
           body |-> [json |-> TRUE, value |-> PyDict(<< <<"error", PyStr("down")>> >>)]]}

\* The return statement: the caller takes the value, the locals of the
\* call are gone, control goes back.
Return(value, failed) ==
    /\ stream_url' = value
    /\ csrf_token' = PyNone
    /\ playback_response' = NoResponse
    /\ resolved' = Append(resolved, [id |-> channel_id, url |-> value,
                                     failed |-> failed])
    /\ pc' = IF entry = "generate_roku_playlist" THEN "append" ELSE "returned"

\* Lines 95-99: the handler logs the exception, then the fallback.
Except ==
    /\ log' = Append(log, LogRecord("error", "Failed to get stream URL for channel",
                                    channel_id))
    /\ Return(PyStr(FallbackUrl(channel_id)), TRUE)

\* Lines 56-62: the session and the request to the provider's root page.
SessionGet ==
    /\ pc = "session_get"
    /\ \E o \in SessionOutcomes :
        /\ net' = <<[method |-> "GET", url |-> RootUrl, json |-> PyNone, csrf |-> PyNone]>>
        /\ provider' = [session |-> o, playback |-> NoResponse]
        /\ IF o.kind = "raise"
           THEN Except
           ELSE /\ csrf_token' = IF HasKey(o.headers, "csrf-token")
                                 THEN Lookup(o.headers, "csrf-token")
                                 ELSE PyNone
                /\ pc' = "playback_post"
                /\ UNCHANGED <<playback_response, stream_url, resolved, log>>
    /\ UNCHANGED <<entry, channel_id, raised>>
    /\ UNCHANGED builderVars
    /\ UNCHANGED formatVars

\* PlaybackPost with `if csrf_token is not None` for `if csrf_token`.
PlaybackPostIsNotNone ==
    /\ pc = "playback_post"
    /\ \E o \in PlaybackOutcomes :
        /\ net' = Append(net, [method |-> "POST", url |-> PlaybackUrl,
                               json |-> PlaybackData(channel_id),
                               csrf |-> csrf_token])
        /\ provider' = [provider EXCEPT !.playback = o]
        /\ IF o.kind = "raise"
           THEN Except
           ELSE /\ playback_response' = o
                /\ pc' = "playback_status"
                /\ UNCHANGED <<csrf_token, stream_url, resolved, log>>
    /\ UNCHANGED <<entry, channel_id, raised>>
    /\ UNCHANGED builderVars
    /\ UNCHANGED formatVars

\* Lines 65-83: the negotiation request.
PlaybackPost ==
    /\ pc = "playback_post"
    /\ \E o \in PlaybackOutcomes :
        /\ net' = Append(net, [method |-> "POST", url |-> PlaybackUrl,
                               json |-> PlaybackData(channel_id),
                               csrf |-> IF Truthy(csrf_token) THEN csrf_token ELSE PyNone])
        /\ provider' = [provider EXCEPT !.playback = o]
        /\ IF o.kind = "raise"
           THEN Except
           ELSE /\ playback_response' = o
                /\ pc' = "playback_status"
                /\ UNCHANGED <<csrf_token, stream_url, resolved, log>>
    /\ UNCHANGED <<entry, channel_id, raised>>
    /\ UNCHANGED builderVars
    /\ UNCHANGED formatVars

\* Lines 89-91: the rewrite of the URL the provider gave.
RewriteUrl(u) ==
    LET has == PyIn("osm.sr.roku.com", u)
    IN  IF ~has.ok THEN has
        ELSE IF ~has.v THEN Ok(u)
        ELSE LET r1 == PyReplace(u, "https://osm.sr.roku.com/",
                                 "https://aka-live491.delivery.roku.com/")
             IN  IF ~r1.ok THEN r1
                 ELSE PyReplace(r1.v, "/live.m3u8", "/t2-origin/out/v1/live.m3u8")

\* ParsePlayback with a body that is not JSON taken for an empty object.
ParsePlaybackLenient(body) ==
    LET got == PyGet(IF body.json THEN body.value ELSE PyDict(<<>>), "url", PyStr(""))
    IN  IF ~got.ok THEN got ELSE RewriteUrl(got.v)

\* Lines 85-93: what the body of a 200 response resolves to.
ParsePlayback(body) ==
    IF ~body.json THEN Raise("JSONDecodeError")
    ELSE LET got == PyGet(body.value, "url", PyStr(""))
         IN  IF ~got.ok THEN got ELSE RewriteUrl(got.v)

\* Lines 84-99: the status test, the parse, the return or the fallback.
PlaybackStatus ==
    /\ pc = "playback_status"
    /\ IF playback_response.status = 200
       THEN LET r == ParsePlayback(playback_response.body)
            IN  IF r.ok
                THEN Return(r.v, FALSE) /\ UNCHANGED log
                ELSE Except
       ELSE /\ Return(PyStr(FallbackUrl(channel_id)), TRUE)
            /\ UNCHANGED log
    /\ UNCHANGED <<entry, channel_id, net, provider, raised>>
    /\ UNCHANGED builderVars
    /\ UNCHANGED formatVars

(***************************************************************************)
(* format_extinf                                                           *)
(***************************************************************************)
\* Line 7: the channel number, or "" when it is None or not all digits.
ChnoStr(tvg_chno) ==
    IF tvg_chno.t # "none" /\ StrIsDigit(PyStrOf(tvg_chno))
    THEN PyStrOf(tvg_chno)
    ELSE ""

\* Sanitize with the replacement forgotten: the value goes out as it came.
SanitizeUnescaped(v, old, new) ==
    IF Truthy(v)
    THEN (IF v.t = "str" THEN Ok(v) ELSE Raise("AttributeError"))
    ELSE Ok(PyStr(""))

\* Lines 10-12: v.replace(old, new) if v else "".
Sanitize(v, old, new) ==
    IF Truthy(v) THEN PyReplace(v, old, new) ELSE Ok(PyStr(""))

\* Lines 4-21: the #EXTINF line, or the exception a replace raises.
format_extinf(c_id, tvg_id, tvg_chno, tvg_name, tvg_logo, group_title, display_name) ==
    LET sanitized_tvg_name == Sanitize(tvg_name, "\"", "'")
        sanitized_group_title == Sanitize(group_title, "\"", "'")
        sanitized_display_name == Sanitize(display_name, ",", "")
    IN  IF ~sanitized_tvg_name.ok THEN sanitized_tvg_name
        ELSE IF ~sanitized_group_title.ok THEN sanitized_group_title
        ELSE IF ~sanitized_display_name.ok THEN sanitized_display_name
        ELSE Ok(PyStr("#EXTINF:-1 "
                \o "channel-id=\"" \o PyStrOf(c_id) \o "\" "
                \o "tvg-id=\"" \o PyStrOf(tvg_id) \o "\" "
                \o "tvg-chno=\"" \o ChnoStr(tvg_chno) \o "\" "
                \o "tvg-name=\"" \o sanitized_tvg_name.v.s \o "\" "
                \o "tvg-logo=\"" \o PyStrOf(tvg_logo) \o "\" "
                \o "group-title=\"" \o sanitized_group_title.v.s \o "\","
                \o sanitized_display_name.v.s \o "\n"))

(***************************************************************************)
(* generate_roku_playlist, with fetch_url and write_m3u_file               *)
(***************************************************************************)
ROKU_URL == "https://i.mjh.nz/Roku/.channels.json"

EPG_URL == "https://github.com/matthuisman/i.mjh.nz/raw/master/Roku/all.xml.gz"

M3uFile == "roku_all.m3u"

\* Line 112: the header line.
Header == "#EXTM3U url-tvg=\"" \o EPG_URL \o "\"\n"

\* The sort modes the builder is called with.
SortModes == {"chno", "name"}

\* The entries a catalog may hold for a channel: complete ones, ones with
\* fields missing, null or of another type, and one that is no mapping.
Entries ==
    {PyDict(<< <<"chno", PyInt(5)>>, <<"name", PyStr("zeta")>>,
               <<"logo", PyStr("http://l/z.png")>>,
               <<"groups", PyList(<<PyStr("News"), PyStr("Local")>>)>> >>),
     PyDict(<< <<"chno", PyInt(1)>>, <<"name", PyStr("Ki\"ds, TV")>>,
               <<"logo", PyStr("http://l/k.png")>>,
               <<"groups", PyList(<<PyStr("Ki\"ds")>>)>> >>),
     PyDict(<< <<"chno", PyNone>>, <<"name", PyStr("Alpha")>> >>),
     PyDict(<< <<"name", PyStr("beta")>> >>),
     PyDict(<< <<"chno", PyStr("abc")>>, <<"name", PyInt(7)>> >>),
     PyStr("oops")}

\* The `channels` mappings of n channels, in the catalog's own order.
ChannelMaps(n) ==
    {PyDict([i \in 1..n |-> <<ChannelIdAt(i), f[i]>>]) : f \in [1..n -> Entries]}

\* What the catalog endpoint's body may parse to.
CatalogData ==
    {PyNone, PyInt(5), PyList(<<>>), PyList(<<PyStr("channels")>>),
     PyDict(<<>>), PyDict(<< <<"error", PyStr("rate limited")>> >>),
     PyDict(<< <<"channels", PyList(<<>>)>> >>)}
    \cup {PyDict(<< <<"channels", m>> >>) :
            m \in UNION {ChannelMaps(n) : n \in 0..MaxChannels}}

\* What fetch_url may meet: an exception of requests.get, of
\* raise_for_status or of response.json, or the parsed body.
FetchOutcomes ==
    {[kind |-> k, value |-> PyNone] :
        k \in {"ConnectionError", "HTTPError", "JSONDecodeError"}}
    \cup {[kind |-> "parsed", value |-> v] : v \in CatalogData}

\* An exception leaves the invoked function, raised at the given line.
Propagate(e, line) ==
    /\ raised' = [t |-> "exception", exc |-> e, line |-> line]
    /\ pc' = "raised"

\* Lines 106-107 and 23-38: the catalog fetch.
FetchCatalog ==
    /\ pc = "fetch"
    /\ \E o \in FetchOutcomes :
        IF o.kind = "parsed"
        THEN /\ data' = o.value
             /\ log' = Append(log, LogRecord("info", "--- Generating Roku playlist ---", ""))
        ELSE /\ data' = PyNone
             /\ log' = log \o <<LogRecord("info", "--- Generating Roku playlist ---", ""),
                                LogRecord("error", "Failed to fetch", ROKU_URL)>>
    /\ pc' = "check_data"
    /\ UNCHANGED <<entry, sort, channels_to_process, sorted_channel_ids, idx, extinf,
                   output_lines, m3u_content, file, raised>>
    /\ UNCHANGED resolverVars
    /\ UNCHANGED formatVars

\* Lines 108-113: the test of the fetched data, the header, the channels.
CheckData ==
    /\ pc = "check_data"
    /\ LET has == PyIn("channels", data)
           got == PyGet(data, "channels", PyDict(<<>>))
           abort == /\ log' = Append(log, LogRecord("error",
                                         "Failed to fetch or parse Roku data.", ""))
                    /\ pc' = "returned"
                    /\ UNCHANGED <<output_lines, channels_to_process, raised>>
       IN  IF ~Truthy(data) THEN abort
           ELSE IF ~has.ok
                THEN Propagate(has.exc, 108)
                     /\ UNCHANGED <<output_lines, channels_to_process, log>>
           ELSE IF ~has.v THEN abort
           ELSE IF ~got.ok
                THEN Propagate(got.exc, 113)
                     /\ output_lines' = <<Header>>
                     /\ UNCHANGED <<channels_to_process, log>>
           ELSE /\ output_lines' = <<Header>>
                /\ channels_to_process' = got.v
                /\ pc' = "sort"
                /\ UNCHANGED <<log, raised>>
    /\ UNCHANGED <<entry, sort, data, sorted_channel_ids, idx, extinf, m3u_content, file>>
    /\ UNCHANGED resolverVars
    /\ UNCHANGED formatVars

\* a < b on the sort keys, which are all int or all str.
KeyLess(a, b) == IF a.t = "int" THEN a.n < b.n ELSE StrLess(a.s, b.s)

\* sorted(ids, key=...) once the keys are computed: ascending and stable.
StableSort(ids, key) ==
    LET n == Len(ids)
        pos(i) == 1 + Cardinality({j \in 1..n : \/ KeyLess(key[j], key[i])
                                                \/ (key[j] = key[i] /\ j < i)})
    IN  [p \in 1..n |-> ids[CHOOSE i \in 1..n : pos(i) = p]]

\* Line 119: int(channels_to_process[k].get('chno', 99999))
ChnoKey(channel) ==
    LET got == PyGet(channel, "chno", PyInt(99999))
    IN  IF ~got.ok THEN got
        ELSE LET n == PyIntOf(got.v)
             IN  IF n.ok THEN Ok(PyInt(n.v)) ELSE n

\* Line 122: channels_to_process[k].get('name', '').lower()
NameKey(channel) ==
    LET got == PyGet(channel, "name", PyStr(""))
    IN  IF ~got.ok THEN got
        ELSE IF got.v.t = "str" THEN Ok(PyStr(StrLower(got.v.s)))
        ELSE Raise("AttributeError")

\* Lines 117-122: the sorted identifiers, or the first exception met.
SortedIds(channels, mode) ==
    LET ids == PyKeys(channels)
    IN  IF ~ids.ok THEN ids
        ELSE LET n == Len(ids.v)
                 key == [i \in 1..n |->
                           IF mode = "chno" THEN ChnoKey(Lookup(channels, ids.v[i]))
                           ELSE NameKey(Lookup(channels, ids.v[i]))]
             IN  IF \E i \in 1..n : ~key[i].ok
                 THEN key[CHOOSE i \in 1..n : ~key[i].ok /\ \A j \in 1..(i - 1) : key[j].ok]
                 ELSE Ok(StableSort(ids.v, [i \in 1..n |-> key[i].v]))

\* Lines 116-125: the sort, and the catalog's own order when it fails.
SortChannels ==
    /\ pc = "sort"
    /\ LET try == SortedIds(channels_to_process, sort)
           native == PyKeys(channels_to_process)
       IN  IF try.ok
           THEN /\ sorted_channel_ids' = try.v
                /\ idx' = 1
                /\ pc' = "loop"
                /\ UNCHANGED <<log, raised>>
           ELSE /\ log' = Append(log, LogRecord("warning",
                             "Sorting failed for Roku, using default order.", ""))
                /\ IF native.ok
                   THEN /\ sorted_channel_ids' = native.v
                        /\ idx' = 1
                        /\ pc' = "loop"
                        /\ UNCHANGED raised
                   ELSE /\ Propagate(native.exc, 125)
                        /\ UNCHANGED <<sorted_channel_ids, idx>>
    /\ UNCHANGED <<entry, sort, data, channels_to_process, extinf, output_lines,
                   m3u_content, file>>
    /\ UNCHANGED resolverVars
    /\ UNCHANGED formatVars

\* Line 134: groups_list[0] if groups_list else 'Uncategorized'
GroupTitle(groups_list) ==
    IF ~Truthy(groups_list) THEN Ok(PyStr("Uncategorized"))
    ELSE CASE groups_list.t = "list" -> Ok(groups_list.l[1])
           [] groups_list.t = "str"  -> Ok(PyStr(CharAt(groups_list.s, 1)))
           [] groups_list.t = "dict" -> Raise("KeyError")
           [] OTHER                  -> Raise("TypeError")

\* Lines 129-137: the metadata line of one channel of the catalog.
ChannelExtinf(channels, c_id) ==
    LET channel == Lookup(channels, c_id)
        chno == PyGet(channel, "chno", PyNone)
        name == PyGet(channel, "name", PyStr("Unknown Channel"))
        logo == PyGet(channel, "logo", PyStr(""))
        groups_list == PyGet(channel, "groups", PyList(<<>>))
    IN  IF ~chno.ok THEN chno
        ELSE LET group_title == GroupTitle(groups_list.v)
             IN  IF ~group_title.ok THEN group_title
                 ELSE format_extinf(PyStr(c_id), PyStr(c_id), chno.v, name.v, logo.v,
                                    group_title.v, name.v)

\* Lines 128-138: the next channel's metadata line, then the resolver call.
LoopBody ==
    /\ pc = "loop"
    /\ idx <= Len(sorted_channel_ids)
    /\ LET line == ChannelExtinf(channels_to_process, sorted_channel_ids[idx])
       IN  IF line.ok
           THEN /\ extinf' = line.v.s
                /\ channel_id' = sorted_channel_ids[idx]
                /\ pc' = "session_get"
                /\ UNCHANGED raised
           ELSE /\ Propagate(line.exc,
                       IF Lookup(channels_to_process, sorted_channel_ids[idx]).t # "dict"
                       THEN 130 ELSE 137)
                /\ UNCHANGED <<extinf, channel_id>>
    /\ UNCHANGED <<entry, sort, data, channels_to_process, sorted_channel_ids, idx,
                   output_lines, m3u_content, file, csrf_token, playback_response,
                   stream_url, net, provider, resolved, log>>
    /\ UNCHANGED formatVars

\* AppendLines with the newline after the URL forgotten.
AppendLinesNoNewline ==
    /\ pc = "append"
    /\ IF stream_url.t = "str"
       THEN /\ output_lines' = output_lines \o <<extinf, stream_url.s>>
            /\ idx' = idx + 1
            /\ pc' = "loop"
            /\ UNCHANGED raised
       ELSE /\ Propagate("TypeError", 141)
            /\ output_lines' = Append(output_lines, extinf)
            /\ UNCHANGED idx
    /\ net' = <<>>
    /\ provider' = NoProvider
    /\ UNCHANGED <<entry, sort, data, channels_to_process, sorted_channel_ids, extinf,
                   m3u_content, file, log>>
    /\ UNCHANGED <<channel_id, csrf_token, playback_response, stream_url, resolved>>
    /\ UNCHANGED formatVars

\* Lines 140-141: the two lines of the channel join the accumulator. The
\* record of the resolver call that has just returned (net, provider) is closed.
AppendLines ==
    /\ pc = "append"
    /\ IF stream_url.t = "str"
       THEN /\ output_lines' = output_lines \o <<extinf, stream_url.s \o "\n">>
            /\ idx' = idx + 1
            /\ pc' = "loop"
            /\ UNCHANGED raised
       ELSE /\ Propagate("TypeError", 141)
            /\ output_lines' = Append(output_lines, extinf)
            /\ UNCHANGED idx
    /\ net' = <<>>
    /\ provider' = NoProvider
    /\ UNCHANGED <<entry, sort, data, channels_to_process, sorted_channel_ids, extinf,
                   m3u_content, file, log>>
    /\ UNCHANGED <<channel_id, csrf_token, playback_response, stream_url, resolved>>
    /\ UNCHANGED formatVars

RECURSIVE Join(_)
\* "".join(lines)
Join(lines) == IF Len(lines) = 0 THEN "" ELSE Head(lines) \o Join(Tail(lines))

\* Lines 143 and 40-47: the document goes to the file, or the write fails
\* and is logged; either way nothing is raised.
WriteFile ==
    /\ pc = "loop"
    /\ idx > Len(sorted_channel_ids)
    /\ m3u_content' = PyStr(Join(output_lines))
    /\ \E written \in BOOLEAN :
        IF written
        THEN /\ file' = m3u_content'
             /\ log' = Append(log, LogRecord("info", "Successfully wrote", M3uFile))
        ELSE /\ file' = file
             /\ log' = Append(log, LogRecord("error", "Failed to write", M3uFile))
    /\ pc' = "returned"
    /\ UNCHANGED <<entry, sort, data, channels_to_process, sorted_channel_ids, idx,
                   extinf, output_lines, raised>>
    /\ UNCHANGED resolverVars
    /\ UNCHANGED formatVars

(***************************************************************************)
(* format_extinf invoked on its own.                                       *)
(***************************************************************************)
\* The names format_extinf is called with: plain, with the characters the
\* format reserves, empty, None, and one that is no str.
FormatNames ==
    {PyStr("zeta"), PyStr("Ki\"ds, TV"), PyStr("\"\""), PyStr(""), PyNone, PyInt(7)}

\* The arguments format_extinf is called with; the display name is the
\* name, as the builder passes it, or another text.
FormatArgs ==
    UNION {{<<c, t, n, nm, lg, g, d>> :
              c \in {PyStr("ch1"), PyStr("c\"1")},
              t \in {PyStr("ch1"), PyStr("t\"1")},
              n \in {PyNone, PyInt(5), PyStr("12"), PyStr("abc"), PyStr("")},
              lg \in {PyStr(""), PyStr("http://l/z.png"), PyStr("http://l/\"q\".png")},
              g \in {PyStr("News"), PyStr("Ki\"ds"), PyStr("Uncategorized")},
              d \in {nm, PyStr("a,b")}} : nm \in FormatNames}

\* Lines 4-21, called with fmt_args.
CallFormatExtinf ==
    /\ pc = "format_call"
    /\ LET r == format_extinf(fmt_args[1], fmt_args[2], fmt_args[3], fmt_args[4],
                              fmt_args[5], fmt_args[6], fmt_args[7])
       IN  IF r.ok
           THEN /\ fmt_result' = r.v
                /\ pc' = "returned"
                /\ UNCHANGED raised
           ELSE /\ Propagate(r.exc, 10)
                /\ UNCHANGED fmt_result
    /\ UNCHANGED <<entry, fmt_args, log>>
    /\ UNCHANGED builderVars
    /\ UNCHANGED resolverVars

(***************************************************************************)
(* The runs: generate_roku_playlist, and the two functions on their own.   *)
(***************************************************************************)
InitIdle ==
    /\ data = PyNone
    /\ channels_to_process = PyNone
    /\ sorted_channel_ids = <<>>
    /\ idx = 0
    /\ extinf = ""
    /\ output_lines = <<>>
    /\ m3u_content = PyNone
    /\ file = PyNone
    /\ csrf_token = PyNone
    /\ playback_response = NoResponse
    /\ stream_url = PyNone
    /\ net = <<>>
    /\ provider = NoProvider
    /\ resolved = <<>>
    /\ log = <<>>
    /\ raised = PyNone
    /\ fmt_result = PyNone

Init ==
    /\ InitIdle
    /\ entry = "generate_roku_playlist"
    /\ pc = "fetch"
    /\ sort \in SortModes
    /\ channel_id = ""
    /\ fmt_args = <<>>

Next ==
    \/ FetchCatalog
    \/ CheckData
    \/ SortChannels
    \/ LoopBody
    \/ SessionGet
    \/ PlaybackPost
    \/ PlaybackStatus
    \/ AppendLines
    \/ WriteFile

Spec == Init /\ [][Next]_vars

InitResolver ==
    /\ InitIdle
    /\ entry = "get_roku_stream_url"
    /\ pc = "session_get"
    /\ sort = "chno"
    /\ channel_id \in ChannelIds
    /\ fmt_args = <<>>

NextResolver == SessionGet \/ PlaybackPost \/ PlaybackStatus

SpecResolver == InitResolver /\ [][NextResolver]_vars

InitFormat ==
    /\ InitIdle
    /\ entry = "format_extinf"
    /\ pc = "format_call"
    /\ sort = "chno"
    /\ channel_id = ""
    /\ fmt_args \in FormatArgs

NextFormat == CallFormatExtinf

SpecFormat == InitFormat /\ [][NextFormat]_vars

(***************************************************************************)
(* What the properties speak of.                                           *)
(***************************************************************************)
\* The resolver has returned to whoever called it.
ResolverReturned == pc \in {"returned", "append"} /\ Len(resolved) > 0

\* The provider made the call fail: the session request raised, the
\* negotiation request raised, the status was not 200, or the parse raised.
SessionFailed == provider.session.kind = "raise"

NegotiationFailed == provider.playback.kind = "raise"

StatusFailed == provider.playback.kind = "response" /\ provider.playback.status # 200

\* The body of a 200 response is one Python cannot take a URL from: it is
\* not JSON (json() raises), not an object (no get), or its url is null or a
\* number (no `in`).
ParseFailed ==
    /\ provider.playback.kind = "response"
    /\ provider.playback.status = 200
    /\ LET body == provider.playback.body
       IN  \/ ~body.json
           \/ body.value.t # "dict"
           \/ /\ HasKey(body.value, "url")
              /\ Lookup(body.value, "url").t \in {"none", "int"}

ResolverFailure == SessionFailed \/ NegotiationFailed \/ StatusFailed \/ ParseFailed

\* The positions of the character c in s.
Positions(s, c) == {i \in 1..Len(s) : CharAt(s, i) = c}

Min(S) == CHOOSE x \in S : \A y \in S : x <= y

RECURSIVE Split(_, _)
\* The pieces of s between the occurrences of the character c.
Split(s, c) ==
    IF Positions(s, c) = {} THEN <<s>>
    ELSE LET i == Min(Positions(s, c))
         IN  <<SubSeq(s, 1, i - 1)>> \o Split(SubSeq(s, i + 1, Len(s)), c)

EndsWith(s, p) == Len(s) >= Len(p) /\ SubSeq(s, Len(s) - Len(p) + 1, Len(s)) = p

\* The host of a URL: what stands between "://" and the next "/", "?" or "#".
UrlRest(u) ==
    LET starts == {i \in 1..(Len(u) - 2) : SubSeq(u, i, i + 2) = "://"}
    IN  IF starts = {} THEN u ELSE SubSeq(u, Min(starts) + 3, Len(u))

UrlScheme(u) == SubSeq(u, 1, Len(u) - Len(UrlRest(u)))

UrlHostLen(u) ==
    LET r == UrlRest(u)
        stops == {i \in 1..Len(r) : CharAt(r, i) \in {"/", "?", "#"}}
    IN  IF stops = {} THEN Len(r) ELSE Min(stops) - 1

UrlHost(u) == SubSeq(UrlRest(u), 1, UrlHostLen(u))

UrlPath(u) == SubSeq(UrlRest(u), UrlHostLen(u) + 1, Len(UrlRest(u)))

\* An absolute http(s) URL with a host.
IsValidUrl(u) == UrlScheme(u) \in {"http://", "https://"} /\ Len(UrlHost(u)) > 0

\* The URL on the edge domain, the suffix /live.m3u8 made the edge's.
EdgeUrl(u) ==
    UrlScheme(u) \o "aka-live491.delivery.roku.com"
    \o (IF EndsWith(UrlPath(u), "/live.m3u8")
        THEN SubSeq(UrlPath(u), 1, Len(UrlPath(u)) - Len("/live.m3u8"))
             \o "/t2-origin/out/v1/live.m3u8"
        ELSE UrlPath(u))

(***************************************************************************)
(* C1: whenever the provider makes a call of get_roku_stream_url(c) fail   *)
(* (the session request raises, the negotiation request raises, the status *)
(* is not 200, or parsing the response raises), the call returns exactly   *)
(* https://aka-live491.delivery.roku.com/<c>/t2-origin/out/v1/live.m3u8,   *)
(* and no exception leaves the call.                                       *)
(***************************************************************************)
Thm_C1_FailureReturnsFallback ==
    /\ (ResolverReturned /\ ResolverFailure) =>
          stream_url = PyStr("https://aka-live491.delivery.roku.com/" \o channel_id
                             \o "/t2-origin/out/v1/live.m3u8")
    /\ entry = "get_roku_stream_url" => (pc # "raised" /\ raised = PyNone)

\* A call has returned after a 200 response whose body would not parse.
Wit_C1_ParseFailureReturned == ResolverReturned /\ ParseFailed

(***************************************************************************)
(* C2: the text generate_roku_playlist hands to write_m3u_file is the      *)
(* header line followed by one pair of lines per channel of the catalog,   *)
(* in the chosen order: the channel's metadata line, then the URL the      *)
(* resolver returned for that channel and a newline. A resolution that     *)
(* failed is never what stops the build.                                   *)
(***************************************************************************)
RECURSIVE ExpectedPairs(_)
ExpectedPairs(i) ==
    IF i = 0 THEN ""
    ELSE ExpectedPairs(i - 1)
         \o ChannelExtinf(channels_to_process, sorted_channel_ids[i]).v.s
         \o resolved[i].url.s \o "\n"

Thm_C2_DocumentShape ==
    /\ m3u_content # PyNone =>
          LET n == Len(channels_to_process.items)
          IN  /\ Len(sorted_channel_ids) = n
              /\ {sorted_channel_ids[i] : i \in 1..n}
                    = {channels_to_process.items[i][1] : i \in 1..n}
              /\ Len(resolved) = n
              /\ \A i \in 1..n : resolved[i].id = sorted_channel_ids[i]
              /\ m3u_content = PyStr(Header \o ExpectedPairs(n))
    /\ (pc = "raised" /\ raised.line = 141) => ~resolved[Len(resolved)].failed
    /\ (pc = "append" /\ resolved[Len(resolved)].failed) => stream_url.t = "str"

\* A document of two channels went out, the first resolution having failed
\* and the second succeeded.
Wit_C2_MixedDocument ==
    /\ m3u_content # PyNone
    /\ Len(resolved) = 2
    /\ resolved[1].failed
    /\ ~resolved[2].failed

(***************************************************************************)
(* C3: every value get_roku_stream_url returns is a non-empty,             *)
(* syntactically valid URL, also after a 200 response whose body has no    *)
(* url field or an empty one.                                              *)
(***************************************************************************)
Cex_C3_AlwaysValidUrl ==
    ResolverReturned => (stream_url.t = "str" /\ IsValidUrl(stream_url.s))

(***************************************************************************)
(* C4: with sort mode chno, in the order of emission every channel with a  *)
(* usable number (chno present, its string form all digits) precedes every *)
(* channel without one, and the usable numbers ascend.                     *)
(***************************************************************************)
ChnoOf(c_id) == PyGet(Lookup(channels_to_process, c_id), "chno", PyNone)

Usable(c_id) ==
    /\ ChnoOf(c_id).ok
    /\ ChnoOf(c_id).v.t \in {"int", "str"}
    /\ StrIsDigit(PyStrOf(ChnoOf(c_id).v))

\* Every entry of the catalog is a mapping.
EntriesAreMappings ==
    \A i \in 1..Len(channels_to_process.items) :
        channels_to_process.items[i][2].t = "dict"

Cex_C4_UsableNumbersFirst ==
    (sort = "chno" /\ pc = "loop" /\ EntriesAreMappings) =>
        \A i, j \in 1..Len(sorted_channel_ids) :
            (i < j /\ Usable(sorted_channel_ids[j])) =>
                /\ Usable(sorted_channel_ids[i])
                /\ PyIntOf(ChnoOf(sorted_channel_ids[i]).v).v
                     <= PyIntOf(ChnoOf(sorted_channel_ids[j]).v).v

(***************************************************************************)
(* C5: when computing the sort order fails, a warning is logged, the       *)
(* catalog's own order is used, and the build still runs to its end: no    *)
(* exception leaves generate_roku_playlist.                                *)
(***************************************************************************)
SortFailed ==
    \E i \in 1..Len(log) :
        log[i] = LogRecord("warning", "Sorting failed for Roku, using default order.", "")

Cex_C5_SortFailureNeverAborts ==
    (SortFailed /\ channels_to_process.t = "dict" /\ EntriesAreMappings) =>
        /\ pc # "raised"
        /\ sorted_channel_ids = PyKeys(channels_to_process).v

(***************************************************************************)
(* C6: on the success path the URL is rewritten only when its host is      *)
(* exactly osm.sr.roku.com (the host becomes the edge domain, the suffix   *)
(* /live.m3u8 becomes /t2-origin/out/v1/live.m3u8); a URL on any other     *)
(* host is returned unchanged.                                             *)
(***************************************************************************)
SuccessUrl == Lookup(provider.playback.body.value, "url")

SuccessPath ==
    /\ ResolverReturned
    /\ provider.playback.kind = "response"
    /\ provider.playback.status = 200
    /\ provider.playback.body.json
    /\ provider.playback.body.value.t = "dict"
    /\ HasKey(provider.playback.body.value, "url")
    /\ SuccessUrl.t = "str"

Cex_C6_RewriteOnlyOnExactHost ==
    SuccessPath =>
        stream_url = IF UrlHost(SuccessUrl.s) = "osm.sr.roku.com"
                     THEN PyStr(EdgeUrl(SuccessUrl.s))
                     ELSE SuccessUrl

(***************************************************************************)
(* C7: when the catalog fetch fails, or the fetched data carries no        *)
(* channels entry, the build aborts: a diagnostic is logged, the resolver  *)
(* is not called, nothing goes to the sink, and no exception leaves        *)
(* generate_roku_playlist.                                                 *)
(***************************************************************************)
NoChannelsEntry == ~(data.t = "dict" /\ HasKey(data, "channels"))

Cex_C7_NoCatalogAborts ==
    (entry = "generate_roku_playlist" /\ pc \notin {"fetch", "check_data"}
        /\ NoChannelsEntry) =>
        /\ pc = "returned"
        /\ log[Len(log)] = LogRecord("error", "Failed to fetch or parse Roku data.", "")
        /\ resolved = <<>>
        /\ net = <<>>
        /\ m3u_content = PyNone
        /\ file = PyNone

(***************************************************************************)
(* C8: every failure path of the resolver has logged a line naming the     *)
(* channel identifier by the time the fallback is returned, a non-200      *)
(* status included.                                                        *)
(***************************************************************************)
Cex_C8_EveryFailureLogged ==
    (entry = "get_roku_stream_url" /\ ResolverReturned /\ ResolverFailure) =>
        \E i \in 1..Len(log) : log[i].level = "error" /\ log[i].about = channel_id

(***************************************************************************)
(* C9: for a name or group holding a double quote, the tvg-name and        *)
(* group-title values of the line hold none (each became a single quote),  *)
(* and the line reads as its six attributes, one per double-quoted         *)
(* segment, in the order channel-id, tvg-id, tvg-chno, tvg-name, tvg-logo, *)
(* group-title.                                                            *)
(***************************************************************************)
HasQuote(v) == v.t = "str" /\ Positions(v.s, "\"") # {}

\* out is orig with every double quote turned into a single quote.
QuoteSwapped(orig, out) ==
    /\ Len(out) = Len(orig)
    /\ \A i \in 1..Len(orig) :
          CharAt(out, i) = IF CharAt(orig, i) = "\"" THEN "'" ELSE CharAt(orig, i)

AttributeNames == <<"channel-id", "tvg-id", "tvg-chno", "tvg-name", "tvg-logo", "group-title">>

\* The line, cut at its double quotes, is the six names each followed by
\* its quoted value, then the comma that opens the display text.
ReadsAsSixAttributes(line) ==
    LET seg == Split(line, "\"")
    IN  /\ Len(seg) >= 13
        /\ seg[1] = "#EXTINF:-1 " \o AttributeNames[1] \o "="
        /\ \A k \in 2..6 : seg[2 * k - 1] = " " \o AttributeNames[k] \o "="
        /\ StartsWith(seg[13], ",")

QuotedNameOrGroup ==
    /\ entry = "format_extinf"
    /\ pc \in {"returned", "raised"}
    /\ fmt_args[4].t = "str"
    /\ fmt_args[6].t = "str"
    /\ HasQuote(fmt_args[4]) \/ HasQuote(fmt_args[6])

QuotesNeutralised ==
    /\ pc = "returned"
    /\ fmt_result.t = "str"
    /\ ReadsAsSixAttributes(fmt_result.s)
    /\ QuoteSwapped(fmt_args[4].s, Split(fmt_result.s, "\"")[8])
    /\ QuoteSwapped(fmt_args[6].s, Split(fmt_result.s, "\"")[12])

\* C9 as the claim has it: whatever the other fields hold.
Cex_C9_LineAlwaysReadable == QuotedNameOrGroup => QuotesNeutralised

VerbatimFieldsQuoteFree ==
    ~HasQuote(fmt_args[1]) /\ ~HasQuote(fmt_args[2]) /\ ~HasQuote(fmt_args[5])

\* C9 amended: for a name or group holding a double quote, the tvg-name and
\* group-title values hold none and the line reads as its six attributes,
\* provided the fields emitted verbatim (channel-id, tvg-id, tvg-logo) hold
\* no double quote themselves.
Thm_C9_QuotesNeutralised ==
    (QuotedNameOrGroup /\ VerbatimFieldsQuoteFree) => QuotesNeutralised

\* A line was rendered from a name and a group that both hold a double quote.
Wit_C9_QuotedNameAndGroup ==
    /\ QuotedNameOrGroup
    /\ VerbatimFieldsQuoteFree
    /\ HasQuote(fmt_args[4])
    /\ HasQuote(fmt_args[6])
    /\ pc = "returned"

(***************************************************************************)
(* C10: within one call the request to the provider's root comes first,    *)
(* the negotiation request is issued at most once and not at all when the  *)
(* session request fails; without a token header it is still issued, and   *)
(* it carries the csrf-token header exactly when a token was obtained.     *)
(***************************************************************************)
TokenObtained ==
    /\ HasKey(provider.session.headers, "csrf-token")
    /\ Truthy(Lookup(provider.session.headers, "csrf-token"))

Thm_C10_RequestOrder ==
    /\ Len(net) <= 2
    /\ Len(net) >= 1 => (net[1].method = "GET" /\ net[1].url = RootUrl)
    /\ Len(net) = 2 => (net[2].method = "POST" /\ net[2].url = PlaybackUrl)
    /\ SessionFailed => Len(net) = 1
    /\ (provider.session.kind = "response" /\ pc # "playback_post") => Len(net) = 2
    /\ Len(net) = 2 =>
          /\ TokenObtained <=> net[2].csrf # PyNone
          /\ TokenObtained => net[2].csrf = Lookup(provider.session.headers, "csrf-token")

\* The negotiation request went out after a root response without the header.
Wit_C10_PostWithoutToken ==
    /\ Len(net) = 2
    /\ provider.session.kind = "response"
    /\ ~HasKey(provider.session.headers, "csrf-token")
    /\ net[2].csrf = PyNone

====
